---- MODULE Spec2Model ----
(***************************************************************************)
(* Weather statistics backend: the sample-window assembler (DataFetcher),  *)
(* the statistical Processor, the CacheService and the query handler       *)
(* (WeatherController.query), as state machines.                           *)
(*                                                                         *)
(* JavaScript numbers are modelled as exact rationals with the range of   *)
(* the IEEE double: a finite number is n/d times Number.MAX_VALUE to the   *)
(* power -1, 0 or 1, a result beyond Number.MAX_VALUE is Infinity, and a   *)
(* sum takes the value of the operand of the larger scale.  With them go   *)
(* the IEEE specials (NaN, Infinity) and the JavaScript non-numbers a      *)
(* sample may carry (null, undefined).  A JavaScript object is a record    *)
(* whose DOMAIN is the set of its defined properties.                      *)
(***************************************************************************)
EXTENDS Integers, Sequences, FiniteSets, TLC

(* ----------------------------- bounds ---------------------------------- *)
\* longest sample sequence handed to the Processor
MaxLen == 3
\* sample values and thresholds are the integers 0..MaxValue
MaxValue == 2
\* number of calendar years, starting at FirstYear, a sample or query may name
NumYears == 2
\* widest day window (the validator allows up to 30)
MaxWindow == 3
\* number of query requests the server receives
MaxRequests == 2
\* seeds of the random source behind the generated values
MaxSeed == 1
\* the longest of the sample sequences with a run of missing values
MaxTotal == 10

(* ------------------------- program constants --------------------------- *)
FirstYear == 1980
NumBins == 20
DaysInYear == 365
MaxDayOfYear == 366
LastYear == 2023
MaxLat == 90
MaxLon == 180
MaxWindowAllowed == 30
SliceLimit == 100

Years == FirstYear..(FirstYear + NumYears - 1)
Variables == {"temperature", "precipitation", "windspeed", "humidity", "dust"}

(* ------------------------- JavaScript values --------------------------- *)
Abs(i) == IF i < 0 THEN -i ELSE i

RECURSIVE Gcd(_, _)
Gcd(a, b) == IF b = 0 THEN a ELSE Gcd(b, a % b)

Null == [t |-> "null", n |-> 0, d |-> 1]
Undefined == [t |-> "undefined", n |-> 0, d |-> 1]
NaN == [t |-> "NaN", n |-> 0, d |-> 1]
Infinity == [t |-> "inf", n |-> 1, d |-> 1]
NegInfinity == [t |-> "inf", n |-> -1, d |-> 1]

\* n/d with d > 0, divided through by g
reduced(n, d, g) == [t |-> "num", n |-> n \div g, d |-> d \div g]

\* the number n/d (d # 0) in lowest terms, so that equal numbers are equal records
Rat(n, d) ==
  IF d < 0 THEN reduced(-n, -d, Gcd(Abs(n), Abs(d))) ELSE reduced(n, d, Gcd(Abs(n), Abs(d)))

Num(i) == Rat(i, 1)

\* ToNumber of a sample value: null is 0, undefined is NaN
ToNumber(x) == IF x.t = "null" THEN Num(0) ELSE IF x.t = "undefined" THEN NaN ELSE x

\* Number.MAX_VALUE, the largest finite number
MAX_VALUE == [t |-> "big", n |-> 1, d |-> 1]

\* the power of Number.MAX_VALUE a finite number is a multiple of
scaleOf(x) == IF x.t = "big" THEN 1 ELSE IF x.t = "tiny" THEN -1 ELSE 0

\* Infinity with the sign of n
signedInfinity(n) == IF n > 0 THEN Infinity ELSE NegInfinity

\* the number r * Number.MAX_VALUE^k for a rational r: overflow gives
\* +-Infinity, underflow gives 0
scaled(r, k) ==
  IF r.n = 0 \/ k = 0 THEN r
  ELSE IF k > 1 THEN signedInfinity(r.n)
  ELSE IF k = 1
  THEN (IF Abs(r.n) > r.d THEN signedInfinity(r.n) ELSE [t |-> "big", n |-> r.n, d |-> r.d])
  ELSE IF k = -1 THEN [t |-> "tiny", n |-> r.n, d |-> r.d]
  ELSE Num(0)

addNum(x, y) ==
  IF x.t = "NaN" \/ y.t = "NaN" THEN NaN
  ELSE IF x.t = "inf" THEN (IF y.t = "inf" /\ y.n # x.n THEN NaN ELSE x)
  ELSE IF y.t = "inf" THEN y
  ELSE IF x.n = 0 THEN y
  ELSE IF y.n = 0 THEN x
  ELSE IF scaleOf(x) > scaleOf(y) THEN x
  ELSE IF scaleOf(x) < scaleOf(y) THEN y
  ELSE scaled(Rat(x.n * y.d + y.n * x.d, x.d * y.d), scaleOf(x))

\* a + b on numbers (operands are finite or NaN in this model)
Add(a, b) == addNum(ToNumber(a), ToNumber(b))

\* x - y is x + (-y)
subNum(x, y) == addNum(x, [y EXCEPT !.n = -y.n])

\* a - b
Sub(a, b) == subNum(ToNumber(a), ToNumber(b))

mulNum(x, y) ==
  IF x.t = "NaN" \/ y.t = "NaN" THEN NaN
  ELSE IF x.t = "inf" \/ y.t = "inf"
  THEN (IF x.n = 0 \/ y.n = 0 THEN NaN ELSE signedInfinity(x.n * y.n))
  ELSE scaled(Rat(x.n * y.n, x.d * y.d), scaleOf(x) + scaleOf(y))

\* a * b
Mul(a, b) == mulNum(ToNumber(a), ToNumber(b))

divNum(x, y) ==
  IF x.t = "NaN" \/ y.t = "NaN" THEN NaN
  ELSE IF x.t = "inf"
  THEN (IF y.t = "inf" THEN NaN ELSE IF y.n < 0 THEN signedInfinity(-x.n) ELSE x)
  ELSE IF y.t = "inf" THEN Num(0)
  ELSE IF y.n = 0 THEN (IF x.n = 0 THEN NaN ELSE IF x.n > 0 THEN Infinity ELSE NegInfinity)
  ELSE scaled(Rat(x.n * y.d, x.d * y.n), scaleOf(x) - scaleOf(y))

\* a / b: 0/0 is NaN, x/0 is +-Infinity
Div(a, b) == divNum(ToNumber(a), ToNumber(b))

\* Math.floor
Floor(a) ==
  IF a.t = "num" THEN Num(a.n \div a.d)
  ELSE IF a.t = "tiny" THEN (IF a.n < 0 THEN Num(-1) ELSE Num(0))
  ELSE a

\* Math.ceil
Ceil(a) ==
  IF a.t = "num" THEN Num(-((-a.n) \div a.d))
  ELSE IF a.t = "tiny" THEN (IF a.n > 0 THEN Num(1) ELSE Num(0))
  ELSE a

gtNum(x, y) ==
  IF x.t = "NaN" \/ y.t = "NaN" THEN FALSE
  ELSE IF x.t = "inf" /\ y.t = "inf" THEN x.n > y.n
  ELSE IF x.t = "inf" THEN x.n > 0
  ELSE IF y.t = "inf" THEN y.n < 0
  ELSE IF x.n = 0 THEN y.n < 0
  ELSE IF y.n = 0 THEN x.n > 0
  ELSE IF scaleOf(x) > scaleOf(y) THEN x.n > 0
  ELSE IF scaleOf(x) < scaleOf(y) THEN y.n < 0
  ELSE x.n * y.d > y.n * x.d

\* a > b: false when either side is NaN
GT(a, b) == gtNum(ToNumber(a), ToNumber(b))

LT(a, b) == GT(b, a)

\* isNaN(v): ToNumber(v) is NaN
isNaN(v) == ToNumber(v).t = "NaN"

\* a >= b: false when either side is NaN
GE(a, b) == ~isNaN(a) /\ ~isNaN(b) /\ ~GT(b, a)

Pow10(k) == IF k = 0 THEN 1 ELSE IF k = 1 THEN 10 ELSE IF k = 2 THEN 100 ELSE IF k = 3 THEN 1000 ELSE 10000

\* x.toFixed(k), as the number of its digits: the nearest multiple of 10^-k,
\* ties away from zero; NaN and Infinity print as themselves, and so does a
\* number from 1e21 on, which prints with all its digits
toFixed(x, k) ==
  IF x.t = "tiny" THEN Num(0)
  ELSE IF x.t # "num" THEN x
  ELSE IF x.n < 0
  THEN Rat(-((2 * Abs(x.n) * Pow10(k) + x.d) \div (2 * x.d)), Pow10(k))
  ELSE Rat((2 * x.n * Pow10(k) + x.d) \div (2 * x.d), Pow10(k))

(* --------------------------- sequence helpers -------------------------- *)
RECURSIVE reduceSum(_, _)
\* values.reduce((sum, v) => sum + v, init)
reduceSum(values, init) ==
  IF values = << >> THEN init
  ELSE reduceSum(Tail(values), Add(init, Head(values)))

RECURSIVE insertSorted(_, _)
insertSorted(sorted, v) ==
  IF sorted = << >> THEN << v >>
  ELSE IF GT(Head(sorted), v) THEN << v >> \o sorted
  ELSE << Head(sorted) >> \o insertSorted(Tail(sorted), v)

RECURSIVE sortAscending(_)
\* [...values].sort((a, b) => a - b) on a copy of values
sortAscending(values) ==
  IF values = << >> THEN << >>
  ELSE insertSorted(sortAscending(Tail(values)), Head(values))

(* ------------------------------ Processor ------------------------------ *)
\* dataPoints.map(d => d.value)
mapValue(dataPoints) == [i \in 1..Len(dataPoints) |-> dataPoints[i].value]

\* v !== null && v !== undefined && !isNaN(v)
isValidValue(v) == v.t # "null" /\ v.t # "undefined" /\ ~isNaN(v)

filterValid(values) == SelectSeq(values, isValidValue)

\* mean(values): values.reduce((sum, v) => sum + v, 0) / values.length
mean(values) == Div(reduceSum(values, Num(0)), Num(Len(values)))

\* medianAt taking the upper middle element for an even length
medianAt_upperMiddle(sortedValues, mid) == sortedValues[mid + 1]

\* median(sortedValues) with mid = Math.floor(length / 2); sortedValues[i] of
\* the code is sortedValues[i + 1] here
medianAt(sortedValues, mid) ==
  IF Len(sortedValues) % 2 = 0
  THEN Div(Add(sortedValues[mid], sortedValues[mid + 1]), Num(2))
  ELSE sortedValues[mid + 1]

\* median(sortedValues)
median(sortedValues) == medianAt(sortedValues, Len(sortedValues) \div 2)

\* Math.pow(v - avg, 2)
squareDiff(diff) == Mul(diff, diff)

\* values.map(v => Math.pow(v - avg, 2))
squareDiffs(values, avg) == [i \in 1..Len(values) |-> squareDiff(Sub(values[i], avg))]

\* Math.sqrt(x), kept as the number under the root
sqrt(x) ==
  IF x.t = "num" THEN [t |-> "sqrt", n |-> x.n, d |-> x.d]
  ELSE IF x.t = "NaN" \/ x.t = "inf" THEN x
  ELSE [t |-> "sqrt", n |-> x.n, d |-> x.d, of |-> x.t]

\* standardDeviation(values)
standardDeviation(values) == sqrt(mean(squareDiffs(values, mean(values))))

\* the return of percentile, from lower, upper and weight
interpolate(sortedValues, lower, upper, weight) ==
  IF lower = upper THEN sortedValues[lower.n + 1]
  ELSE Add(Mul(sortedValues[lower.n + 1], Sub(Num(1), weight)),
           Mul(sortedValues[upper.n + 1], weight))

\* percentile from index = (p / 100) * (length - 1)
percentileAt(sortedValues, index) ==
  interpolate(sortedValues, Floor(index), Ceil(index), Sub(index, Floor(index)))

\* percentile(sortedValues, p)
percentile(sortedValues, p) ==
  IF Len(sortedValues) = 0 THEN Null
  ELSE percentileAt(sortedValues, Mul(Div(Num(p), Num(100)), Num(Len(sortedValues) - 1)))

\* the smaller of two numbers
min2(a, b) == IF LT(a, b) THEN a ELSE b

RECURSIVE minOf(_)
\* Math.min(...values), values not empty
minOf(values) ==
  IF Len(values) = 1 THEN Head(values) ELSE min2(Head(values), minOf(Tail(values)))

\* the larger of two numbers
max2(a, b) == IF GT(a, b) THEN a ELSE b

RECURSIVE maxOf(_)
\* Math.max(...values), values not empty
maxOf(values) ==
  IF Len(values) = 1 THEN Head(values) ELSE max2(Head(values), maxOf(Tail(values)))

\* clampBin without the upper clamp
clampBin_noUpper(binIndex, numBins) ==
  IF LT(binIndex, Num(0)) THEN Num(0) ELSE binIndex

\* the two clamps of the bin index
clampBin(binIndex, numBins) ==
  IF GE(binIndex, Num(numBins)) THEN Num(numBins - 1)
  ELSE IF LT(binIndex, Num(0)) THEN Num(0)
  ELSE binIndex

\* the bin a value is counted in: a number in 0..numBins-1, or NaN when
\* binWidth is 0 (0/0), in which case counts[NaN]++ touches no bin
binIndexOf(v, min, binWidth, numBins) ==
  clampBin(Floor(Div(Sub(v, min), binWidth)), numBins)

\* counts[binIndex]++: an index that is NaN names no element of counts
increment(counts, binIndex) ==
  IF binIndex.t = "num" THEN [counts EXCEPT ![binIndex.n + 1] = @ + 1] ELSE counts

RECURSIVE countValues(_, _, _, _, _)
\* values.forEach(v => { ...; counts[binIndex]++ })
countValues(values, counts, min, binWidth, numBins) ==
  IF values = << >> THEN counts
  ELSE countValues(Tail(values),
                   increment(counts, binIndexOf(Head(values), min, binWidth, numBins)),
                   min, binWidth, numBins)

\* the bins, counts and binWidth createHistogram returns, from min and binWidth
histogramOf(values, numBins, min, binWidth) ==
  [bins |-> [i \in 1..(numBins + 1) |-> toFixed(Add(min, Mul(Num(i - 1), binWidth)), 2)],
   counts |-> countValues(values, [i \in 1..numBins |-> 0], min, binWidth, numBins),
   binWidth |-> toFixed(binWidth, 2)]

\* binWidth = (max - min) / numBins
histogramBetween(values, numBins, min, max) ==
  histogramOf(values, numBins, min, Div(Sub(max, min), Num(numBins)))

\* createHistogram(values, numBins); bins[i] of the code is bins[i + 1] here
createHistogram(values, numBins) ==
  IF Len(values) = 0 THEN [bins |-> << >>, counts |-> << >>]
  ELSE histogramBetween(values, numBins, minOf(values), maxOf(values))

\* exceedCountOf counting with >= in place of >
exceedCountOf_inclusive(values, threshold) == Len(SelectSeq(values, LAMBDA v : GE(v, threshold)))

\* values.filter(v => v > threshold).length
exceedCountOf(values, threshold) == Len(SelectSeq(values, LAMBDA v : GT(v, threshold)))

\* stats.exceedance, from exceedCount
exceedanceBlock(threshold, exceedCount, length) ==
  [threshold |-> threshold,
   probability |-> Div(Num(exceedCount), Num(length)),
   count |-> exceedCount,
   percentage |-> toFixed(Mul(Div(Num(exceedCount), Num(length)), Num(100)), 1)]

\* the exceedance block of computeStats
exceedanceOf(values, threshold) ==
  exceedanceBlock(threshold, exceedCountOf(values, threshold), Len(values))

\* threshold !== null, the guard of the exceedance block
thresholdGiven(threshold) == threshold # Null

\* the stats object before the exceedance block is added
basicStats(values, sorted) ==
  [count |-> Len(values),
   mean |-> mean(values),
   median |-> median(sorted),
   std |-> standardDeviation(values),
   min |-> sorted[1],
   max |-> sorted[Len(sorted)],
   percentiles |-> [p10 |-> percentile(sorted, 10),
                    p25 |-> percentile(sorted, 25),
                    p50 |-> percentile(sorted, 50),
                    p75 |-> percentile(sorted, 75),
                    p90 |-> percentile(sorted, 90),
                    p95 |-> percentile(sorted, 95),
                    p99 |-> percentile(sorted, 99)],
   distribution |-> createHistogram(values, NumBins)]

\* computeStats once the valid values are extracted
statsOfValues(values, threshold) ==
  IF Len(values) = 0 THEN [error |-> "No valid data points", count |-> 0]
  ELSE IF thresholdGiven(threshold)
  THEN basicStats(values, sortAscending(values)) @@ [exceedance |-> exceedanceOf(values, threshold)]
  ELSE basicStats(values, sortAscending(values))

\* computeStats(dataPoints, threshold = null): an undefined argument takes the default
computeStats(dataPoints, thresholdArg) ==
  statsOfValues(filterValid(mapValue(dataPoints)),
                IF thresholdArg = Undefined THEN Null ELSE thresholdArg)

\* phraseOf with each band closed above
phraseOf_inclusive(prob) ==
  IF ~GT(prob, Num(10)) THEN "rare"
  ELSE IF ~GT(prob, Num(30)) THEN "occasional"
  ELSE IF ~GT(prob, Num(60)) THEN "fairly common"
  ELSE "very likely"

\* the qualitative phrase generateSummary appends, from the percentage string
phraseOf(prob) ==
  IF LT(prob, Num(10)) THEN "rare"
  ELSE IF LT(prob, Num(30)) THEN "occasional"
  ELSE IF LT(prob, Num(60)) THEN "fairly common"
  ELSE "very likely"

\* generateSummary(stats, variable, threshold): the sentence as a record of its
\* parts, or the TypeError of calling toFixed on an undefined property
generateSummary(stats, variable, threshold) ==
  IF "exceedance" \in DOMAIN stats
  THEN [throws |-> "none", kind |-> "exceedance", prob |-> stats.exceedance.percentage,
        variable |-> variable, threshold |-> threshold, observations |-> stats.count,
        phrase |-> phraseOf(stats.exceedance.percentage)]
  ELSE IF {"mean", "median", "min", "max"} \subseteq DOMAIN stats
  THEN [throws |-> "none", kind |-> "historical", variable |-> variable,
        mean |-> toFixed(stats.mean, 1), median |-> toFixed(stats.median, 1),
        min |-> toFixed(stats.min, 1), max |-> toFixed(stats.max, 1)]
  ELSE [throws |-> "TypeError"]

\* point.year || parseInt(point.date.split('-')[0]): every sample carries a
\* non-zero year, so the first operand decides
yearOf(point) == point.year

\* the values pushed under yearlyMeans[year], in encounter order
valuesOfYear(dataPoints, year) ==
  mapValue(SelectSeq(dataPoints, LAMBDA point : yearOf(point) = year))

\* the least of a non-empty set of years
firstYearOf(years) == CHOOSE y \in years : \A z \in years : y <= z

RECURSIVE sortedYears(_)
\* Object.keys(yearlyMeans).sort(), as the ascending sequence of the years present
sortedYears(years) ==
  IF years = {} THEN << >>
  ELSE << firstYearOf(years) >> \o sortedYears(years \ {firstYearOf(years)})

\* one entry of trendData
yearlyMean(dataPoints, year) ==
  [year |-> year,
   mean |-> mean(valuesOfYear(dataPoints, year)),
   count |-> Len(valuesOfYear(dataPoints, year))]

\* the map over the sorted keys
trendDataFor(dataPoints, keys) ==
  [k \in 1..Len(keys) |-> yearlyMean(dataPoints, keys[k])]

\* trendData of analyzeTrend
trendDataOf(dataPoints) ==
  trendDataFor(dataPoints, sortedYears({yearOf(dataPoints[i]) : i \in 1..Len(dataPoints)}))

\* slopeOf with the two terms of the denominator exchanged
slopeOf_swapped(n, sumX, sumY, sumXY, sumX2) ==
  Div(Sub(Mul(Num(n), sumXY), Mul(sumX, sumY)),
      Sub(Mul(sumX, sumX), Mul(Num(n), sumX2)))

\* slope = (n * sumXY - sumX * sumY) / (n * sumX2 - sumX * sumX)
slopeOf(n, sumX, sumY, sumXY, sumX2) ==
  Div(Sub(Mul(Num(n), sumXY), Mul(sumX, sumY)),
      Sub(Mul(Num(n), sumX2), Mul(sumX, sumX)))

\* linearRegression without the return for n < 2
linearRegression_unguarded(data) ==
  slopeOf(Len(data),
          reduceSum([i \in 1..Len(data) |-> Num(data[i].year)], Num(0)),
          reduceSum([i \in 1..Len(data) |-> data[i].mean], Num(0)),
          reduceSum([i \in 1..Len(data) |-> Mul(Num(data[i].year), data[i].mean)], Num(0)),
          reduceSum([i \in 1..Len(data) |-> Num(data[i].year * data[i].year)], Num(0)))

\* linearRegression(data)
linearRegression(data) ==
  IF Len(data) < 2 THEN Num(0)
  ELSE slopeOf(Len(data),
               reduceSum([i \in 1..Len(data) |-> Num(data[i].year)], Num(0)),
               reduceSum([i \in 1..Len(data) |-> data[i].mean], Num(0)),
               reduceSum([i \in 1..Len(data) |-> Mul(Num(data[i].year), data[i].mean)], Num(0)),
               reduceSum([i \in 1..Len(data) |-> Num(data[i].year * data[i].year)], Num(0)))

\* slope > 0 ? 'increasing' : slope < 0 ? 'decreasing' : 'stable'
directionOf(slope) ==
  IF GT(slope, Num(0)) THEN "increasing"
  ELSE IF LT(slope, Num(0)) THEN "decreasing"
  ELSE "stable"

\* the object analyzeTrend returns, from trendData and slope
trendOf(trendData, slope) ==
  [yearlyMeans |-> trendData,
   trend |-> [slope |-> toFixed(slope, 4),
              direction |-> directionOf(slope),
              changePerDecade |-> toFixed(Mul(slope, Num(10)), 2)]]

\* the regression over trendData
trendOver(trendData) == trendOf(trendData, linearRegression(trendData))

\* analyzeTrend(dataPoints)
analyzeTrend(dataPoints) == trendOver(trendDataOf(dataPoints))

\* qualityOf with 30 percent still fair
qualityOf_inclusive(missingPercent) ==
  IF LT(missingPercent, Num(10)) THEN "good"
  ELSE IF ~GT(missingPercent, Num(30)) THEN "fair"
  ELSE "poor"

\* quality tier from the missingPercent string
qualityOf(missingPercent) ==
  IF LT(missingPercent, Num(10)) THEN "good"
  ELSE IF LT(missingPercent, Num(30)) THEN "fair"
  ELSE "poor"

\* the object assessDataQuality returns
qualityReport(total, valid, missingPercent) ==
  [total |-> total,
   valid |-> valid,
   missing |-> total - valid,
   missingPercent |-> missingPercent,
   quality |-> qualityOf(missingPercent),
   warning |-> IF GT(missingPercent, Num(30))
               THEN "High percentage of missing data may affect reliability"
               ELSE "null"]

\* missingPercent = (missing / total * 100).toFixed(1)
qualityCounts(total, valid) ==
  qualityReport(total, valid, toFixed(Mul(Div(Num(total - valid), Num(total)), Num(100)), 1))

\* assessDataQuality(dataPoints)
assessDataQuality(dataPoints) ==
  qualityCounts(Len(dataPoints), Len(SelectSeq(dataPoints, LAMBDA d : isValidValue(d.value))))

(* ------------------------------ DataFetcher ---------------------------- *)
\* wrapDay keeping the year of the loop for a wrapped day
wrapDay_sameYear(day, year) ==
  IF day < 1 THEN [actualDay |-> DaysInYear + day, actualYear |-> year]
  ELSE IF day > DaysInYear THEN [actualDay |-> day - DaysInYear, actualYear |-> year]
  ELSE [actualDay |-> day, actualYear |-> year]

\* day-of-year wrap-around of generateMockData: the (actualDay, actualYear) of
\* offset day of year
wrapDay(day, year) ==
  IF day < 1 THEN [actualDay |-> DaysInYear + day, actualYear |-> year - 1]
  ELSE IF day > DaysInYear THEN [actualDay |-> day - DaysInYear, actualYear |-> year + 1]
  ELSE [actualDay |-> day, actualYear |-> year]

\* the k-th value the generator produces from Math.random(): a finite number
\* with two decimals; rnd is the random source of one call, the model draws
\* its values from 0..MaxValue
mockValue(rnd, k) == Num((rnd.base + rnd.step * k) % (MaxValue + 1))

\* dayInWindow with < in place of <=
dayInWindow_exclusive(day, dayOfYear, window) == day < dayOfYear + window

\* the condition of the inner loop: day <= dayOfYear + window
dayInWindow(day, dayOfYear, window) == day <= dayOfYear + window

\* the condition of the outer loop: year <= yearRange.end
yearInRange(year, yearRange) == year <= yearRange.end

\* the object pushed for offset day of year, as the k-th sample
pointOf(actual, rnd, k) ==
  [value |-> mockValue(rnd, k), year |-> actual.actualYear, dayOfYear |-> actual.actualDay]

RECURSIVE dayLoop(_, _, _, _, _, _)
\* for (let day = ...; day <= dayOfYear + window; day++) { ...; data.push(...) }
dayLoop(day, year, dayOfYear, window, rnd, data) ==
  IF dayInWindow(day, dayOfYear, window)
  THEN dayLoop(day + 1, year, dayOfYear, window, rnd,
               Append(data, pointOf(wrapDay(day, year), rnd, Len(data))))
  ELSE data

RECURSIVE yearLoop(_, _, _, _, _, _)
\* for (let year = yearRange.start; year <= yearRange.end; year++) { ... }
yearLoop(year, yearRange, dayOfYear, window, rnd, data) ==
  IF yearInRange(year, yearRange)
  THEN yearLoop(year + 1, yearRange, dayOfYear, window, rnd,
                dayLoop(dayOfYear - window, year, dayOfYear, window, rnd, data))
  ELSE data

\* generateMockData(lat, lon, variable, dayOfYear, window, yearRange)
generateMockData(dayOfYear, window, yearRange, rnd) ==
  yearLoop(yearRange.start, yearRange, dayOfYear, window, rnd, << >>)

(* ------------------------------ CacheService --------------------------- *)
\* generateKey(params): the template string, as the tuple of the values it prints
generateKey(params) ==
  << "query", params.lat, params.lon, params.variable, params.dayOfYear,
     params.window, params.yearRange.start, params.yearRange.end >>

\* this.cache.get(key) !== undefined
cacheHas(store, key) == key \in DOMAIN store

\* cachePut keeping the entry a key already has
cachePut_keepFirst(store, key, value) ==
  [k \in (DOMAIN store) \cup {key} |-> IF k \in DOMAIN store THEN store[k] ELSE value]

\* this.cache.set(key, value): the store afterwards
cachePut(store, key, value) ==
  [k \in (DOMAIN store) \cup {key} |-> IF k = key THEN value ELSE store[k]]

\* this.cache.del(key): the store afterwards
cacheDel(store, key) == [k \in (DOMAIN store) \ {key} |-> store[k]]

(* ------------------------------- validator ----------------------------- *)
\* schemaErrors with 100 as the greatest latitude
schemaErrors_latAtMost100(body) ==
  {f \in {"lat", "lon", "dayOfYear", "variable", "window", "yearRange.start", "yearRange.end", ""} :
     \/ f = "lat" /\ ("lat" \notin DOMAIN body \/ body.lat < -MaxLat \/ body.lat > MaxLat + 10)
     \/ f = "lon" /\ ("lon" \notin DOMAIN body \/ body.lon < -MaxLon \/ body.lon > MaxLon)
     \/ f = "dayOfYear" /\ "dayOfYear" \in DOMAIN body
          /\ (body.dayOfYear < 1 \/ body.dayOfYear > MaxDayOfYear)
     \/ f = "variable" /\ ("variable" \notin DOMAIN body \/ body.variable \notin Variables)
     \/ f = "window" /\ "window" \in DOMAIN body
          /\ (body.window < 0 \/ body.window > MaxWindowAllowed)
     \/ f = "yearRange.start" /\ "yearRange" \in DOMAIN body
          /\ (body.yearRange.start < FirstYear \/ body.yearRange.start > LastYear)
     \/ f = "yearRange.end" /\ "yearRange" \in DOMAIN body
          /\ (body.yearRange.end < FirstYear \/ body.yearRange.end > LastYear)
     \/ f = "" /\ "dayOfYear" \notin DOMAIN body /\ "date" \notin DOMAIN body}

\* weatherQuerySchema on a body, a record of the properties the request sends
\* (numbers for the numeric fields, a calendar date for date): the paths Joi
\* reports, "" being the object itself for or('dayOfYear', 'date')
schemaErrors(body) ==
  {f \in {"lat", "lon", "dayOfYear", "variable", "window", "yearRange.start", "yearRange.end", ""} :
     \/ f = "lat" /\ ("lat" \notin DOMAIN body \/ body.lat < -MaxLat \/ body.lat > MaxLat)
     \/ f = "lon" /\ ("lon" \notin DOMAIN body \/ body.lon < -MaxLon \/ body.lon > MaxLon)
     \/ f = "dayOfYear" /\ "dayOfYear" \in DOMAIN body
          /\ (body.dayOfYear < 1 \/ body.dayOfYear > MaxDayOfYear)
     \/ f = "variable" /\ ("variable" \notin DOMAIN body \/ body.variable \notin Variables)
     \/ f = "window" /\ "window" \in DOMAIN body
          /\ (body.window < 0 \/ body.window > MaxWindowAllowed)
     \/ f = "yearRange.start" /\ "yearRange" \in DOMAIN body
          /\ (body.yearRange.start < FirstYear \/ body.yearRange.start > LastYear)
     \/ f = "yearRange.end" /\ "yearRange" \in DOMAIN body
          /\ (body.yearRange.end < FirstYear \/ body.yearRange.end > LastYear)
     \/ f = "" /\ "dayOfYear" \notin DOMAIN body /\ "date" \notin DOMAIN body}

\* the default of window
DefaultWindow == 7

\* value of validate(): the body with the defaults of window and yearRange
withDefaults(body) ==
  [f \in (DOMAIN body) \cup {"window", "yearRange"} |->
     IF f \in DOMAIN body THEN body[f]
     ELSE IF f = "window" THEN DefaultWindow
     ELSE [start |-> FirstYear, end |-> LastYear]]

\* the Gregorian calendar of Date
IsLeapYear(y) == (y % 4 = 0 /\ y % 100 # 0) \/ y % 400 = 0

DaysInMonth(y, m) ==
  IF m = 2 THEN (IF IsLeapYear(y) THEN 29 ELSE 28)
  ELSE IF m \in {4, 6, 9, 11} THEN 30 ELSE 31

\* leap years before year y
LeapYearsBefore(y) == (y - 1) \div 4 - (y - 1) \div 100 + (y - 1) \div 400

\* days from 1970-01-01 to January 1st of year y
DaysBeforeYear(y) == 365 * (y - 1970) + LeapYearsBefore(y) - LeapYearsBefore(1970)

RECURSIVE DaysBeforeMonth(_, _)
DaysBeforeMonth(y, m) == IF m = 1 THEN 0 ELSE DaysBeforeMonth(y, m - 1) + DaysInMonth(y, m - 1)

\* 1000 * 60 * 60 * 24, in minutes: every time here is a whole number of minutes
oneDay == 60 * 24

\* new Date('YYYY-MM-DD'): midnight UTC of the date, in minutes since the epoch
utcMidnight(date) == (DaysBeforeYear(date.y) + DaysBeforeMonth(date.y, date.m) + date.d - 1) * oneDay

\* date.getFullYear(): the year of the instant on the local calendar
getFullYear(time, zone) ==
  CHOOSE y \in 1900..2100 :
    /\ DaysBeforeYear(y) * oneDay <= time + zone
    /\ time + zone < DaysBeforeYear(y + 1) * oneDay

\* new Date(year, 0, 1): local midnight of January 1st
localNewYear(year, zone) == DaysBeforeYear(year) * oneDay - zone

\* Math.floor(diff / oneDay) + 1 with diff = date - start
dayOfYearOf(date, zone) ==
  (utcMidnight(date) - localNewYear(getFullYear(utcMidnight(date), zone), zone)) \div oneDay + 1

\* value.date && !value.dayOfYear: the conversion of validateWeatherQuery
convertDate(value, zone) ==
  IF "date" \in DOMAIN value /\ "dayOfYear" \notin DOMAIN value
  THEN [f \in (DOMAIN value) \cup {"dayOfYear"} |->
          IF f = "dayOfYear" THEN dayOfYearOf(value.date, zone) ELSE value[f]]
  ELSE value

(* ---------------------------- WeatherController ------------------------ *)
\* a result that has not been computed yet
NotComputed == [pending |-> TRUE]

\* a request slot before its request arrives
IdleRequest ==
  [pc |-> "idle", params |-> NotComputed, timeseries |-> << >>,
   stats |-> NotComputed, quality |-> NotComputed, trend |-> NotComputed,
   summary |-> NotComputed, meta |-> NotComputed,
   fetched |-> FALSE, samples |-> 0, computed |-> FALSE, csv |-> FALSE, didSet |-> FALSE,
   response |-> [status |-> 0]]

\* the request once the handler has answered: its locals are gone; what remains
\* is the response and the record of what the handler did (fetched: the data
\* fetch returned, with samples its length; computed: computeStats ran; csv:
\* generateCSV was called; didSet: cache.set was called)
answered(req, response) ==
  [req EXCEPT !.pc = "done", !.response = response, !.timeseries = << >>,
              !.stats = NotComputed, !.quality = NotComputed, !.trend = NotComputed,
              !.summary = NotComputed, !.meta = NotComputed]

\* noData without the length test
noData_never(timeseries) == FALSE

\* !timeseries || timeseries.length === 0
noData(timeseries) == Len(timeseries) = 0

\* meta of the response (queryDate, the clock reading, is left out)
metaOf(params, quality) ==
  [variable |-> params.variable, lat |-> params.lat, lon |-> params.lon,
   locationName |-> << params.lat, params.lon >>,
   dayOfYear |-> params.dayOfYear, window |-> params.window,
   yearRange |-> params.yearRange, dataSource |-> "NASA GES DISC / Giovanni",
   quality |-> quality]

\* csvWriter.getPublicURL(filename), without the clock reading in the file name
getPublicURL(variable) == << "/api/v1/weather/download/", "weather_data", variable >>

\* timeseries.slice(0, 100)
slice100(timeseries) == SubSeq(timeseries, 1, IF Len(timeseries) < SliceLimit THEN Len(timeseries) ELSE SliceLimit)

\* the result object the handler builds, caches and sends
resultOf(meta, stats, trend, summary, timeseries, downloadUrl) ==
  [success |-> TRUE, meta |-> meta, stats |-> stats, trend |-> trend,
   summary |-> summary, distribution |-> stats.distribution,
   timeseries |-> slice100(timeseries), downloadUrl |-> downloadUrl,
   cached |-> FALSE]

\* { success: true, cached: true, ...cachedResult }: properties of the spread
\* object replace the ones written before it
cachedResponse(cachedResult) == cachedResult @@ [success |-> TRUE, cached |-> TRUE]

(* ------------------------------- state --------------------------------- *)
VARIABLES
  dataPoints,  \* the sample sequence handed to the Processor
  threshold,   \* the threshold argument of computeStats / generateSummary
  stats,       \* result of computeStats
  quality,     \* result of assessDataQuality
  trend,       \* result of analyzeTrend
  summary,     \* result of generateSummary
  ppc,         \* position of the Processor's caller
  query,       \* the arguments of a generateMockData call
  data,        \* the sequence generateMockData returned
  fpc,         \* position of generateMockData's caller
  reqs,        \* the query requests: position, validated data, locals, response
  cache,       \* CacheService.cache: the stored result of each key present
  cacheStats,  \* CacheService.stats: hits, misses, sets
  nodeEnv,     \* process.env.NODE_ENV
  reqBody,     \* req.body handed to validateWeatherQuery
  tz,          \* the server's time zone: minutes ahead of UTC
  validated,   \* what validateWeatherQuery did: the 400 response or req.validatedData
  vpc          \* position of validateWeatherQuery's caller

procVars == << dataPoints, threshold, stats, quality, trend, summary, ppc >>

fetchVars == << query, data, fpc >>

serverVars == << reqs, cache, cacheStats, nodeEnv >>

validVars == << reqBody, tz, validated, vpc >>

vars == << dataPoints, threshold, stats, quality, trend, summary, ppc, query, data, fpc,
           reqs, cache, cacheStats, nodeEnv, reqBody, tz, validated, vpc >>

\* validateWeatherQuery not called
ValidatorIdle ==
  /\ reqBody = NotComputed
  /\ tz = 0
  /\ validated = NotComputed
  /\ vpc = "idle"

\* the server before any request: constructor of CacheService
ServerIdle ==
  /\ reqs = [r \in 1..MaxRequests |-> IdleRequest]
  /\ cache = << >>
  /\ cacheStats = [hits |-> 0, misses |-> 0, sets |-> 0]

(* ---------------------- inputs of the Processor ------------------------ *)
SampleValues == {Null, Undefined, NaN} \cup {Num(i) : i \in 0..MaxValue}

Thresholds == {Undefined, Null, NaN, Infinity} \cup {Num(i) : i \in 0..MaxValue}

Samples(years) == [value : SampleValues, year : years, dayOfYear : {1}]

SeqsUpTo(S, k) == UNION {[1..m -> S] : m \in 0..k}

(* ----------------- Processor: computeStats, generateSummary ------------ *)
\* sample sequences of up to MaxTotal samples of which the first k are 1 and
\* the others 0
PartlyExceeding ==
  {[i \in 1..total |-> [value |-> IF i <= k THEN Num(1) ELSE Num(0),
                        year |-> FirstYear, dayOfYear |-> 1]] :
     total \in 1..MaxTotal, k \in 0..MaxTotal}

InitStats ==
  /\ dataPoints \in SeqsUpTo(Samples({FirstYear}), MaxLen) \cup PartlyExceeding
  /\ threshold \in Thresholds
  /\ stats = NotComputed
  /\ quality = NotComputed
  /\ trend = NotComputed
  /\ summary = NotComputed
  /\ ppc = "start"
  /\ query = NotComputed
  /\ data = << >>
  /\ fpc = "idle"
  /\ ServerIdle
  /\ ValidatorIdle
  /\ nodeEnv = "development"

RECURSIVE insertPoint(_, _)
insertPoint(sorted, point) ==
  IF sorted = << >> THEN << point >>
  ELSE IF GT(Head(sorted).value, point.value) THEN << point >> \o sorted
  ELSE << Head(sorted) >> \o insertPoint(Tail(sorted), point)

RECURSIVE sortPoints(_)
\* dataPoints.sort((a, b) => a.value - b.value)
sortPoints(points) ==
  IF points = << >> THEN << >> ELSE insertPoint(sortPoints(Tail(points)), Head(points))

\* ComputeStats sorting dataPoints itself instead of a copy of the values
ComputeStats_sortsInPlace ==
  /\ ppc = "start"
  /\ stats' = computeStats(dataPoints, threshold)
  /\ dataPoints' = sortPoints(dataPoints)
  /\ ppc' = "stats"
  /\ UNCHANGED << threshold, quality, trend, summary, fetchVars, serverVars, validVars >>

ComputeStats ==
  /\ ppc = "start"
  /\ stats' = computeStats(dataPoints, threshold)
  /\ ppc' = "stats"
  /\ UNCHANGED << dataPoints, threshold, quality, trend, summary, fetchVars, serverVars, validVars >>

GenerateSummary ==
  /\ ppc = "stats"
  /\ \E variable \in Variables :
       summary' = generateSummary(stats, variable, threshold)
  /\ ppc' = "summary"
  /\ UNCHANGED << dataPoints, threshold, stats, quality, trend, fetchVars, serverVars, validVars >>

NextStats == ComputeStats \/ GenerateSummary

SpecStats == InitStats /\ [][NextStats]_vars

(* --------------- Processor: assessDataQuality, analyzeTrend ------------ *)
\* sample sequences of up to MaxTotal samples of one year of which the first k
\* are missing, all in the same way
PartlyMissing ==
  {[i \in 1..total |-> [value |-> IF i <= k THEN mv ELSE Num(0),
                        year |-> FirstYear, dayOfYear |-> 1]] :
     total \in 1..MaxTotal, k \in 0..MaxTotal, mv \in {Null, Undefined, NaN}}

InitTrend ==
  /\ dataPoints \in SeqsUpTo(Samples(Years), MaxLen) \cup PartlyMissing
  /\ threshold = Undefined
  /\ stats = NotComputed
  /\ quality = NotComputed
  /\ trend = NotComputed
  /\ summary = NotComputed
  /\ ppc = "start"
  /\ query = NotComputed
  /\ data = << >>
  /\ fpc = "idle"
  /\ ServerIdle
  /\ ValidatorIdle
  /\ nodeEnv = "development"

AssessDataQuality ==
  /\ quality = NotComputed
  /\ quality' = assessDataQuality(dataPoints)
  /\ UNCHANGED << dataPoints, threshold, stats, trend, summary, ppc, fetchVars, serverVars, validVars >>

AnalyzeTrend ==
  /\ trend = NotComputed
  /\ trend' = analyzeTrend(dataPoints)
  /\ UNCHANGED << dataPoints, threshold, stats, quality, summary, ppc, fetchVars, serverVars, validVars >>

NextTrend == AssessDataQuality \/ AnalyzeTrend

SpecTrend == InitTrend /\ [][NextTrend]_vars

(* ------------- Processor: the four functions on one input -------------- *)
\* the samples of one year with ordinary and missing values, and the samples
\* of two years at the ends of the number range: an ordinary value, the
\* largest finite number and its negation
InitProcessor ==
  /\ dataPoints \in SeqsUpTo(Samples({FirstYear}), MaxLen)
                   \cup SeqsUpTo([value : {Num(MaxValue), MAX_VALUE, Sub(Num(0), MAX_VALUE)},
                                  year : {FirstYear, FirstYear + 1},
                                  dayOfYear : {1}], MaxLen)
  /\ threshold = Num(1)
  /\ stats = NotComputed
  /\ quality = NotComputed
  /\ trend = NotComputed
  /\ summary = NotComputed
  /\ ppc = "start"
  /\ query = NotComputed
  /\ data = << >>
  /\ fpc = "idle"
  /\ ServerIdle
  /\ ValidatorIdle
  /\ nodeEnv = "development"

\* computeStats, assessDataQuality, analyzeTrend and generateSummary on the
\* same dataPoints, generateSummary after computeStats
NextProcessor == ComputeStats \/ AssessDataQuality \/ AnalyzeTrend \/ GenerateSummary

SpecProcessor == InitProcessor /\ [][NextProcessor]_vars

(* ------------------- DataFetcher: generateMockData --------------------- *)
\* windows 0..MaxWindow of the validator's 0..30
Windows == 0..MaxWindow

\* every yearRange the validator accepts over Years, start > end included
YearRanges == [start : Years, end : Years]

\* the validator's dayOfYear range
DaysOfYear == 1..MaxDayOfYear

RandomSources == [base : 0..MaxSeed, step : {0, 1}]

InitFetch ==
  /\ query \in [dayOfYear : DaysOfYear, window : Windows, yearRange : YearRanges]
  /\ data = << >>
  /\ fpc = "start"
  /\ dataPoints = << >>
  /\ threshold = Undefined
  /\ stats = NotComputed
  /\ quality = NotComputed
  /\ trend = NotComputed
  /\ summary = NotComputed
  /\ ppc = "start"
  /\ ServerIdle
  /\ ValidatorIdle
  /\ nodeEnv = "development"

GenerateMockData ==
  /\ fpc = "start"
  /\ fpc' = "done"
  /\ \E rnd \in RandomSources :
       data' = generateMockData(query.dayOfYear, query.window, query.yearRange, rnd)
  /\ UNCHANGED << query, procVars, serverVars, validVars >>

NextFetch == GenerateMockData

SpecFetch == InitFetch /\ [][NextFetch]_vars

(* --------------------- validateWeatherQuery ---------------------------- *)
\* calendar dates sent as date: each is a date of the calendar
Dates ==
  {date \in [y : {2023, 2024}, m : {1, 2, 7, 12}, d : {1, 4, 29, 31}] :
     date.d <= DaysInMonth(date.y, date.m)}

\* the time zones of the server: UTC-5, UTC and UTC+5:30
TimeZones == {-300, 0, 330}

\* bodies with every property
FullBodies ==
  [lat : {40, 100}, lon : {-74}, variable : {"temperature", "snow"},
   dayOfYear : {1, 185, 367}, date : Dates, window : {0},
   yearRange : {[start |-> FirstYear, end |-> FirstYear]}]

\* the bodies sent: each of the full ones, with any of the properties but lat
\* and lon left out
ValidateBodies ==
  {[f \in {"lat", "lon"} \cup present |-> full[f]] :
     full \in FullBodies,
     present \in SUBSET {"variable", "dayOfYear", "date", "window", "yearRange"}}

InitValidate ==
  /\ dataPoints = << >>
  /\ threshold = Undefined
  /\ stats = NotComputed
  /\ quality = NotComputed
  /\ trend = NotComputed
  /\ summary = NotComputed
  /\ ppc = "idle"
  /\ query = NotComputed
  /\ data = << >>
  /\ fpc = "idle"
  /\ ServerIdle
  /\ nodeEnv = "development"
  /\ reqBody \in ValidateBodies
  /\ tz \in TimeZones
  /\ validated = NotComputed
  /\ vpc = "start"

\* validateWeatherQuery with a schema error: 400
ValidateRejected ==
  /\ vpc = "start"
  /\ schemaErrors(reqBody) # {}
  /\ validated' = [status |-> 400,
                   body |-> [success |-> FALSE, message |-> "Validation error",
                             errors |-> schemaErrors(reqBody)]]
  /\ vpc' = "done"
  /\ UNCHANGED << reqBody, tz, procVars, fetchVars, serverVars >>

\* validateWeatherQuery without an error: req.validatedData is set and next() called
ValidateAccepted ==
  /\ vpc = "start"
  /\ schemaErrors(reqBody) = {}
  /\ validated' = [status |-> 0, validatedData |-> convertDate(withDefaults(reqBody), tz)]
  /\ vpc' = "done"
  /\ UNCHANGED << reqBody, tz, procVars, fetchVars, serverVars >>

NextValidate == ValidateRejected \/ ValidateAccepted

SpecValidate == InitValidate /\ [][NextValidate]_vars

(* ------------------ the server: POST /query, DELETE /cache -------------- *)
\* year ranges of the queries: one year, and a start after the end
QueryYearRanges ==
  {[start |-> FirstYear, end |-> FirstYear], [start |-> FirstYear + 1, end |-> FirstYear]}

\* thresholds of the queries: none and 1
QueryThresholds == {Undefined, Num(1)}

\* the outcomes of Math.random() during the fetch of a query: the mock values
\* are all equal or increase from one sample to the next
QueryRandomSources == [base : {0}, step : {0, 1}]

\* a well-formed query at one place for one variable
GoodBodies ==
  [lat : {40}, lon : {-74}, variable : {"temperature"}, dayOfYear : {1},
   window : {0, 1}, yearRange : QueryYearRanges, threshold : QueryThresholds]

\* one well-formed query, the base of the malformed ones
GoodBody ==
  [lat |-> 40, lon |-> -74, variable |-> "temperature", dayOfYear |-> 1,
   window |-> 0, yearRange |-> [start |-> FirstYear, end |-> FirstYear],
   threshold |-> Undefined]

\* the body without the property named field
Without(body, field) == [f \in (DOMAIN body) \ {field} |-> body[f]]

\* bodies the schema refuses: latitude or longitude out of range, variable
\* absent or unknown, neither dayOfYear nor date
BadBodies ==
  {[GoodBody EXCEPT !.lat = 100], [GoodBody EXCEPT !.lon = -200],
   Without(GoodBody, "variable"), [GoodBody EXCEPT !.variable = "snow"],
   Without(GoodBody, "dayOfYear")}

\* the request bodies sent
QueryBodies == GoodBodies \cup BadBodies

Init ==
  /\ ServerIdle
  /\ ValidatorIdle
  /\ nodeEnv \in {"development", "production"}
  /\ dataPoints = << >>
  /\ threshold = Undefined
  /\ stats = NotComputed
  /\ quality = NotComputed
  /\ trend = NotComputed
  /\ summary = NotComputed
  /\ ppc = "idle"
  /\ query = NotComputed
  /\ data = << >>
  /\ fpc = "idle"

\* requests are numbered in their order of arrival
Arrives(r) ==
  /\ reqs[r].pc = "idle"
  /\ IF r = 1 THEN TRUE ELSE reqs[r - 1].pc # "idle"

\* validateWeatherQuery answers 400 and the handler is not called
QueryRejected(r) ==
  /\ Arrives(r)
  /\ \E body \in QueryBodies :
       /\ schemaErrors(body) # {}
       /\ reqs' = [reqs EXCEPT ![r] =
            answered(@, [status |-> 400,
                         body |-> [success |-> FALSE,
                                   message |-> "Validation error",
                                   errors |-> schemaErrors(body)]])]
  /\ UNCHANGED << cache, cacheStats, nodeEnv, procVars, fetchVars, validVars >>

\* validateWeatherQuery calls next(); query finds the key in the cache
QueryCacheHit(r) ==
  /\ Arrives(r)
  /\ \E body \in QueryBodies :
       LET params == body
           cacheKey == generateKey(params)
       IN /\ schemaErrors(body) = {}
          /\ cacheHas(cache, cacheKey)
          /\ cacheStats' = [cacheStats EXCEPT !.hits = @ + 1]
          /\ reqs' = [reqs EXCEPT ![r] =
               answered([@ EXCEPT !.params = params],
                        [status |-> 200, body |-> cachedResponse(cache[cacheKey])])]
  /\ UNCHANGED << cache, nodeEnv, procVars, fetchVars, validVars >>

\* the request suspended at the await of fetchPointTimeSeries
fetchedRequest(req, timeseries) ==
  [req EXCEPT !.pc = "fetching", !.fetched = TRUE, !.samples = Len(timeseries),
              !.timeseries = timeseries]

\* validateWeatherQuery calls next(); query misses the cache, calls
\* fetchPointTimeSeries (which generates the data) and awaits it
QueryCacheMiss(r) ==
  /\ Arrives(r)
  /\ \E body \in QueryBodies, rnd \in QueryRandomSources :
       LET params == body
           cacheKey == generateKey(params)
       IN /\ schemaErrors(body) = {}
          /\ ~cacheHas(cache, cacheKey)
          /\ cacheStats' = [cacheStats EXCEPT !.misses = @ + 1]
          /\ reqs' = [reqs EXCEPT ![r] =
               fetchedRequest([@ EXCEPT !.params = params],
                              generateMockData(params.dayOfYear, params.window,
                                               params.yearRange, rnd))]
  /\ UNCHANGED << cache, nodeEnv, procVars, fetchVars, validVars >>

\* query resumes after the fetch with no samples: 404
QueryNoData(r) ==
  /\ reqs[r].pc = "fetching"
  /\ noData(reqs[r].timeseries)
  /\ reqs' = [reqs EXCEPT ![r] =
       answered(@, [status |-> 404,
                    body |-> [success |-> FALSE,
                              message |-> "No data available for the specified location and time period"]])]
  /\ UNCHANGED << cache, cacheStats, nodeEnv, procVars, fetchVars, validVars >>

\* the request after summary: an exception of generateSummary goes to
\* next(error), answered 500; otherwise meta is built and generateCSV called
afterSummary(req, stats_, quality_, trend_, summary_) ==
  IF summary_.throws # "none"
  THEN answered([req EXCEPT !.computed = TRUE],
                [status |-> 500, body |-> [success |-> FALSE, message |-> summary_.throws]])
  ELSE [req EXCEPT !.pc = "csv",
                   !.stats = stats_, !.quality = quality_, !.trend = trend_,
                   !.summary = summary_,
                   !.meta = metaOf(req.params, quality_),
                   !.computed = TRUE,
                   !.csv = TRUE]

\* the request after computeStats: assessDataQuality, analyzeTrend, generateSummary
afterStats(req, stats_) ==
  afterSummary(req, stats_, assessDataQuality(req.timeseries), analyzeTrend(req.timeseries),
               generateSummary(stats_, req.params.variable, req.params.threshold))

\* query resumes after the fetch with samples: statistics, quality, trend,
\* summary and meta, then the call of generateCSV, which it awaits
QueryCompute(r) ==
  /\ reqs[r].pc = "fetching"
  /\ ~noData(reqs[r].timeseries)
  /\ reqs' = [reqs EXCEPT ![r] =
       afterStats(@, computeStats(@.timeseries, @.params.threshold))]
  /\ UNCHANGED << cache, cacheStats, nodeEnv, procVars, fetchVars, validVars >>

\* the result object of request r, once its CSV file is written
resultOfRequest(r) ==
  resultOf(reqs[r].meta, reqs[r].stats, reqs[r].trend, reqs[r].summary,
           reqs[r].timeseries, getPublicURL(reqs[r].meta.variable))

\* generateCSV resolves: the result is built and cached; in development the
\* response follows at once, otherwise the handler awaits savedQuery.save()
QueryCsvWritten(r) ==
  /\ reqs[r].pc = "csv"
  /\ cache' = cachePut(cache, generateKey(reqs[r].params), resultOfRequest(r))
  /\ cacheStats' = [cacheStats EXCEPT !.sets = @ + 1]
  /\ reqs' = [reqs EXCEPT ![r] =
       IF nodeEnv # "development"
       THEN [@ EXCEPT !.pc = "saving", !.didSet = TRUE]
       ELSE answered([@ EXCEPT !.didSet = TRUE], [status |-> 200, body |-> resultOfRequest(r)])]
  /\ UNCHANGED << nodeEnv, procVars, fetchVars, validVars >>

\* QueryCsvFailed of a handler that calls cache.set before generateCSV
QueryCsvFailed_setsFirst(r) ==
  /\ reqs[r].pc = "csv"
  /\ cache' = cachePut(cache, generateKey(reqs[r].params), resultOfRequest(r))
  /\ cacheStats' = [cacheStats EXCEPT !.sets = @ + 1]
  /\ reqs' = [reqs EXCEPT ![r] =
       answered(@, [status |-> 500, body |-> [success |-> FALSE, message |-> "Error"]])]
  /\ UNCHANGED << nodeEnv, procVars, fetchVars, validVars >>

\* generateCSV rejects: next(error), answered 500 by the error handler
QueryCsvFailed(r) ==
  /\ reqs[r].pc = "csv"
  /\ reqs' = [reqs EXCEPT ![r] =
       answered(@, [status |-> 500, body |-> [success |-> FALSE, message |-> "Error"]])]
  /\ UNCHANGED << cache, cacheStats, nodeEnv, procVars, fetchVars, validVars >>

\* savedQuery.save() settles (a failure is caught and logged): res.json(result)
QuerySaved(r) ==
  /\ reqs[r].pc = "saving"
  /\ reqs' = [reqs EXCEPT ![r] =
       answered(@, [status |-> 200, body |-> resultOfRequest(r)])]
  /\ UNCHANGED << cache, cacheStats, nodeEnv, procVars, fetchVars, validVars >>

\* ClearCache of a flush that also resets the counters
ClearCache_resetsStats ==
  /\ cache' = << >>
  /\ cacheStats' = [hits |-> 0, misses |-> 0, sets |-> 0]
  /\ UNCHANGED << reqs, nodeEnv, procVars, fetchVars, validVars >>

\* DELETE /cache: clearCache calls cache.flush()
ClearCache ==
  /\ cache' = << >>
  /\ UNCHANGED << reqs, cacheStats, nodeEnv, procVars, fetchVars, validVars >>

\* an entry of the cache reaches its TTL
CacheExpire ==
  /\ \E key \in DOMAIN cache : cache' = cacheDel(cache, key)
  /\ UNCHANGED << reqs, cacheStats, nodeEnv, procVars, fetchVars, validVars >>

Next ==
  \/ \E r \in 1..MaxRequests :
       \/ QueryRejected(r)
       \/ QueryCacheHit(r)
       \/ QueryCacheMiss(r)
       \/ QueryNoData(r)
       \/ QueryCompute(r)
       \/ QueryCsvWritten(r)
       \/ QueryCsvFailed(r)
       \/ QuerySaved(r)
  \/ ClearCache
  \/ CacheExpire

Spec == Init /\ [][Next]_vars

(* ------------------------------- properties ---------------------------- *)
\* the positions of the valid samples of a sample sequence
ValidIndices(points) == {i \in 1..Len(points) : points[i].value.t = "num"}

RECURSIVE SumOfCounts(_)
SumOfCounts(counts) == IF counts = << >> THEN 0 ELSE Head(counts) + SumOfCounts(Tail(counts))

RECURSIVE SumOfValuesAt(_, _)
\* the sum of the (integer) values of points at the positions in indices
SumOfValuesAt(points, indices) ==
  IF indices = {} THEN 0
  ELSE LET i == CHOOSE j \in indices : TRUE
       IN points[i].value.n + SumOfValuesAt(points, indices \ {i})

\* C1: for a sample set with at least one valid value, the counts of the
\* histogram of computeStats sum to the number of valid values, also when all
\* the values are equal
C1_HistogramCountsSum ==
  (ppc # "start" /\ ValidIndices(dataPoints) # {})
    => SumOfCounts(stats.distribution.counts) = Cardinality(ValidIndices(dataPoints))

\* C2: when all valid values are identical, the histogram has 20 counts, of
\* which bin 0 holds all the values and every other bin is empty
C2_DegenerateHistogram ==
  (/\ ppc # "start"
   /\ ValidIndices(dataPoints) # {}
   /\ \A i, j \in ValidIndices(dataPoints) : dataPoints[i].value = dataPoints[j].value)
    => /\ Len(stats.distribution.counts) = 20
       /\ stats.distribution.counts[1] = Cardinality(ValidIndices(dataPoints))
       /\ \A b \in 2..20 : stats.distribution.counts[b] = 0

\* C3: for a sample set without a valid value computeStats returns count 0 and
\* no numeric field, and generateSummary of that result returns an
\* "insufficient data" message without raising, with or without a threshold
C3_EmptySampleSet ==
  /\ (ppc # "start" /\ ValidIndices(dataPoints) = {})
       => /\ stats.count = 0
          /\ DOMAIN stats \cap {"mean", "median", "std", "min", "max", "percentiles"} = {}
  /\ (ppc = "summary" /\ ValidIndices(dataPoints) = {})
       => /\ summary.throws = "none"
          /\ summary.kind = "insufficient data"

\* C5: with at least one valid value and a threshold t given (0 included),
\* exceedance.count is the number of valid values strictly greater than t and
\* exceedance.probability is that count over the number of valid values; with
\* no threshold there is no exceedance field
C5_ExceedanceCount ==
  (ppc # "start" /\ ValidIndices(dataPoints) # {})
    => /\ threshold.t = "num"
            => /\ "exceedance" \in DOMAIN stats
               /\ stats.exceedance.count =
                    Cardinality({i \in ValidIndices(dataPoints) :
                                   dataPoints[i].value.n * threshold.d > threshold.n * dataPoints[i].value.d})
               /\ stats.exceedance.probability.t = "num"
               /\ stats.exceedance.probability.d > 0
               /\ stats.exceedance.probability.n * Cardinality(ValidIndices(dataPoints))
                    = stats.exceedance.count * stats.exceedance.probability.d
       /\ threshold \in {Undefined, Null} => "exceedance" \notin DOMAIN stats

\* a sample set holding the threshold 0 itself and one greater value: one of
\* the two valid values is counted
C5_Witness ==
  /\ ppc = "stats"
  /\ threshold = Num(0)
  /\ \E i \in ValidIndices(dataPoints) : dataPoints[i].value = Num(0)
  /\ stats.count = 2
  /\ "exceedance" \in DOMAIN stats
  /\ stats.exceedance.count = 1
  /\ stats.exceedance.probability = Rat(1, 2)

\* C6: a threshold that is given but is NaN or infinite is skipped: the result
\* has no exceedance field
C6_InvalidThresholdSkipped ==
  (ppc # "start" /\ threshold \in {NaN, Infinity}) => "exceedance" \notin DOMAIN stats

\* C7: generateMockData maps offset o of year Y to day 365 + o of Y - 1 when
\* o < 1, to day o - 365 of Y + 1 when o > 365 and to day o of Y otherwise;
\* for targetDay 1 and window 3 that is days 363..365 of Y - 1 and 1..4 of Y
C7_WrapAround ==
  fpc = "done" =>
    LET t == query.dayOfYear
        w == query.window
        first == query.yearRange.start
    IN /\ \A Y \in first..query.yearRange.end : \A o \in (t - w)..(t + w) :
            LET idx == (Y - first) * (2 * w + 1) + (o - (t - w)) + 1
            IN /\ idx \in DOMAIN data
               /\ data[idx].dayOfYear = (IF o < 1 THEN 365 + o ELSE IF o > 365 THEN o - 365 ELSE o)
               /\ data[idx].year = (IF o < 1 THEN Y - 1 ELSE IF o > 365 THEN Y + 1 ELSE Y)
       /\ (t = 1 /\ w = 3) =>
            \A Y \in first..query.yearRange.end :
              [k \in 1..7 |-> << data[(Y - first) * 7 + k].dayOfYear, data[(Y - first) * 7 + k].year >>]
                = << << 363, Y - 1 >>, << 364, Y - 1 >>, << 365, Y - 1 >>,
                     << 1, Y >>, << 2, Y >>, << 3, Y >>, << 4, Y >> >>

\* targetDay 1 with window 3 over two years: the first sample is day 363 of
\* the year before the first
C7_Witness ==
  /\ fpc = "done"
  /\ query.dayOfYear = 1
  /\ query.window = 3
  /\ query.yearRange.start < query.yearRange.end
  /\ Len(data) >= 14
  /\ data[1].dayOfYear = 363
  /\ data[1].year = query.yearRange.start - 1
  /\ data[8].dayOfYear = 363
  /\ data[8].year = query.yearRange.start

\* C8: for start <= end generateMockData returns (end - start + 1) *
\* (2 * window + 1) samples, also when the window leaves 1..365: one per year
\* for window 0, one window for start = end
C8_SampleCount ==
  (fpc = "done" /\ query.yearRange.start <= query.yearRange.end)
    => /\ Len(data) = (query.yearRange.end - query.yearRange.start + 1) * (2 * query.window + 1)
       /\ query.window = 0 => Len(data) = query.yearRange.end - query.yearRange.start + 1
       /\ query.yearRange.start = query.yearRange.end => Len(data) = 2 * query.window + 1

\* a window that runs past day 365, over two years
C8_Witness ==
  /\ fpc = "done"
  /\ query.dayOfYear = 366
  /\ query.window = 2
  /\ query.yearRange.end = query.yearRange.start + 1
  /\ Len(data) = 10

\* C9: each entry of yearlyMeans has as mean the mean of the valid values of
\* its year and as count the number of those values (stated for the years
\* that have a valid value)
C9_YearlyMeanOfPresentValues ==
  trend # NotComputed =>
    \A k \in DOMAIN trend.yearlyMeans :
      LET entry == trend.yearlyMeans[k]
          present == {i \in ValidIndices(dataPoints) : dataPoints[i].year = entry.year}
      IN present # {} =>
           /\ entry.count = Cardinality(present)
           /\ entry.mean.t = "num"
           /\ entry.mean.n * Cardinality(present) = SumOfValuesAt(dataPoints, present) * entry.mean.d

\* C4: a validated query that supplies a threshold and is answered (its window
\* holds samples and its CSV file is written) is answered 200 with success,
\* meta, stats, stats.mean, stats.exceedance and downloadUrl, whatever was
\* answered before it
C4_ThresholdQueryAnswered ==
  \A r \in 1..MaxRequests :
    (/\ reqs[r].pc = "done"
     /\ reqs[r].params # NotComputed
     /\ reqs[r].params.threshold.t = "num"
     /\ reqs[r].response.status \notin {404, 500})
      => /\ reqs[r].response.status = 200
         /\ reqs[r].response.body.success = TRUE
         /\ {"meta", "stats", "downloadUrl"} \subseteq DOMAIN reqs[r].response.body
         /\ {"mean", "exceedance"} \subseteq DOMAIN reqs[r].response.body.stats

\* C10: a validated query for which the fetch returns no sample (as for
\* yearRange.start > yearRange.end) is answered 404 with success false, and the
\* handler neither computes statistics nor generates a CSV file nor calls
\* cache.set for it
C10_NoDataNotFound ==
  \A r \in 1..MaxRequests :
    /\ (reqs[r].pc = "done" /\ reqs[r].fetched /\ reqs[r].samples = 0)
         => /\ reqs[r].response.status = 404
            /\ reqs[r].response.body.success = FALSE
            /\ ~reqs[r].computed
            /\ ~reqs[r].csv
            /\ ~reqs[r].didSet
    /\ (/\ reqs[r].pc = "done"
        /\ reqs[r].params # NotComputed
        /\ reqs[r].params.yearRange.start > reqs[r].params.yearRange.end)
         => reqs[r].response.status = 404

\* a query with start > end went through the validator and was answered 404
\* while another request has put its result into the cache
C10_Witness ==
  \E r \in 1..MaxRequests :
    /\ reqs[r].pc = "done"
    /\ reqs[r].fetched
    /\ reqs[r].samples = 0
    /\ reqs[r].params.yearRange.start > reqs[r].params.yearRange.end
    /\ reqs[r].response.status = 404
    /\ cacheStats.sets = 1
    /\ cacheStats.misses = 2

\* the valid values of the sample sequence, sorted ascending
SortedValid(points) == sortAscending(filterValid(mapValue(points)))

\* C11: for a sorted sequence V of n >= 1 values, percentile(V, 50) equals
\* median(V): the middle element for odd n, the average of the two middle
\* elements for even n
C11_MedianIsP50 ==
  (ppc # "start" /\ ValidIndices(dataPoints) # {})
    => LET V == SortedValid(dataPoints)
           n == Len(V)
       IN /\ stats.percentiles.p50 = stats.median
          /\ percentile(V, 50) = median(V)
          /\ n % 2 = 1 => stats.median = V[(n + 1) \div 2]
          /\ n % 2 = 0 => stats.median = Rat(V[n \div 2].n + V[n \div 2 + 1].n, 2)

\* two valid values 0 and 1: median and p50 are both 1/2
C11_Witness ==
  /\ ppc = "stats"
  /\ stats.count = 2
  /\ SortedValid(dataPoints) = << Num(0), Num(1) >>
  /\ stats.median = Rat(1, 2)
  /\ stats.percentiles.p50 = Rat(1, 2)

\* the yearly means are numbers over consecutive years and rise by the same
\* positive amount from each year to the next
RisesByConstant(ym) ==
  /\ Len(ym) >= 2
  /\ \A k \in 1..Len(ym) : ym[k].mean.t = "num"
  /\ GT(ym[2].mean, ym[1].mean)
  /\ \A k \in 1..(Len(ym) - 1) :
       /\ ym[k + 1].year = ym[k].year + 1
       /\ Sub(ym[k + 1].mean, ym[k].mean) = Sub(ym[2].mean, ym[1].mean)

\* C12: when the yearly means of two or more consecutive years rise by the same
\* c > 0 each year, the regression slope is c, the slope analyzeTrend returns is
\* c (to its 4 places), the direction is increasing and changePerDecade is
\* 10 * c (to its 2 places)
C12_ConstantRiseSlope ==
  (trend # NotComputed /\ RisesByConstant(trend.yearlyMeans))
    => LET c == Sub(trend.yearlyMeans[2].mean, trend.yearlyMeans[1].mean)
       IN /\ linearRegression(trend.yearlyMeans) = c
          /\ trend.trend.slope = toFixed(c, 4)
          /\ trend.trend.direction = "increasing"
          /\ trend.trend.changePerDecade = toFixed(Mul(c, Num(10)), 2)
          /\ 10000 % c.d = 0 => trend.trend.slope = c
          /\ 10 % c.d = 0 => trend.trend.changePerDecade = Mul(c, Num(10))

\* yearly means 1/2 and 2 in consecutive years: slope 3/2, 15 per decade
C12_Witness ==
  /\ trend # NotComputed
  /\ Len(trend.yearlyMeans) = 2
  /\ trend.yearlyMeans[1].mean = Rat(1, 2)
  /\ trend.yearlyMeans[2].mean = Num(2)
  /\ trend.yearlyMeans[2].year = trend.yearlyMeans[1].year + 1
  /\ trend.trend.slope = Rat(3, 2)
  /\ trend.trend.direction = "increasing"
  /\ trend.trend.changePerDecade = Num(15)

\* the distinct years of the samples
YearsPresent(points) == {points[i].year : i \in 1..Len(points)}

\* C13: with samples of fewer than two distinct years (none or one) the slope
\* is 0 and the direction stable, without a fault; in every case the direction
\* is increasing iff the regression slope is > 0, decreasing iff it is < 0 and
\* stable otherwise
C13_TrendDirection ==
  trend # NotComputed =>
    LET ym == trend.yearlyMeans
        slope == linearRegression(ym)
    IN /\ Cardinality(YearsPresent(dataPoints)) < 2
            => /\ slope = Num(0)
               /\ trend.trend.slope = Num(0)
               /\ trend.trend.direction = "stable"
               /\ trend.trend.changePerDecade = Num(0)
       /\ trend.trend.direction \in {"increasing", "decreasing", "stable"}
       /\ trend.trend.direction = "increasing" <=> (slope.t = "num" /\ slope.n > 0)
       /\ trend.trend.direction = "decreasing" <=> (slope.t = "num" /\ slope.n < 0)
       /\ (Len(ym) = 2 /\ ym[1].mean.t = "num" /\ ym[2].mean.t = "num")
            => /\ trend.trend.direction = "increasing" <=> GT(ym[2].mean, ym[1].mean)
               /\ trend.trend.direction = "decreasing" <=> GT(ym[1].mean, ym[2].mean)

\* two samples of one year with different values: slope 0, stable
C13_Witness ==
  /\ trend # NotComputed
  /\ Len(dataPoints) >= 2
  /\ Cardinality(YearsPresent(dataPoints)) = 1
  /\ dataPoints[1].value = Num(0)
  /\ dataPoints[2].value = Num(2)
  /\ trend.yearlyMeans[1].count = Len(dataPoints)
  /\ trend.trend.slope = Num(0)
  /\ trend.trend.direction = "stable"

\* what the schema asks of a body, for the fields of this claim
PassesValidation(body) ==
  /\ body.lat \in -90..90
  /\ body.lon \in -180..180
  /\ "variable" \in DOMAIN body
  /\ body.variable \in {"temperature", "precipitation", "windspeed", "humidity", "dust"}
  /\ {"dayOfYear", "date"} \cap DOMAIN body # {}

\* the requests that reached the query handler
Handled == {r \in 1..MaxRequests : reqs[r].params # NotComputed}

\* C14: a body that fails validation (latitude or longitude out of range,
\* variable absent or unknown, neither dayOfYear nor date) is answered 400 with
\* success false and a non-empty errors list, and the handler is not called for
\* it: no cache lookup, no fetch, no change of the cache statistics
C14_InvalidBodyRejected ==
  /\ \A r \in 1..MaxRequests :
       reqs[r].pc # "idle" =>
         IF r \in Handled
         THEN PassesValidation(reqs[r].params) /\ reqs[r].response.status # 400
         ELSE /\ reqs[r].pc = "done"
              /\ reqs[r].response.status = 400
              /\ reqs[r].response.body.success = FALSE
              /\ reqs[r].response.body.errors # {}
              /\ ~reqs[r].fetched
              /\ ~reqs[r].computed
              /\ ~reqs[r].csv
              /\ ~reqs[r].didSet
  /\ cacheStats.hits + cacheStats.misses = Cardinality(Handled)
  /\ cacheStats.sets = Cardinality({r \in 1..MaxRequests : reqs[r].didSet})

\* a body without variable was answered 400 after another query was handled
\* and cached: the statistics count the handled query only
C14_Witness ==
  /\ reqs[1].pc = "done"
  /\ reqs[1].response.status = 200
  /\ reqs[2].pc = "done"
  /\ reqs[2].response.status = 400
  /\ reqs[2].response.body.errors = {"variable"}
  /\ cacheStats.hits + cacheStats.misses = 1
  /\ cacheStats.sets = 1

\* the ordinal of a date within its calendar year
OrdinalDay(date) == DaysBeforeMonth(date.y, date.m) + date.d

\* C15: a query with a date and no dayOfYear gets as dayOfYear the ordinal day
\* of the date in its year (1 for January 1st, 185 for 2023-07-04), whatever
\* the server's time zone; a dayOfYear given with the date is kept
C15_DateToDayOfYear ==
  (vpc = "done" /\ validated.status = 0 /\ "date" \in DOMAIN reqBody)
    => IF "dayOfYear" \in DOMAIN reqBody
       THEN validated.validatedData.dayOfYear = reqBody.dayOfYear
       ELSE /\ validated.validatedData.dayOfYear = OrdinalDay(reqBody.date)
            /\ (reqBody.date.m = 1 /\ reqBody.date.d = 1) => validated.validatedData.dayOfYear = 1
            /\ reqBody.date = [y |-> 2023, m |-> 7, d |-> 4]
                 => validated.validatedData.dayOfYear = 185

\* missing / total * 100 to one decimal place, in tenths of a percent
MissingTenths(total, missing) == (2 * 1000 * missing + total) \div (2 * total)

\* C16: assessDataQuality reports missing = total - valid and classifies by
\* missingPercent (missing / total * 100 to one decimal place): good below 10,
\* fair from 10 to below 30, poor otherwise, with a warning iff it is above 30;
\* exactly 30.0 percent missing is poor without a warning
C16_QualityTiers ==
  quality # NotComputed =>
    LET total == Len(dataPoints)
        valid == Cardinality(ValidIndices(dataPoints))
        tenths == MissingTenths(total, total - valid)
    IN /\ quality.total = total
       /\ quality.valid = valid
       /\ quality.missing = total - valid
       /\ quality.valid + quality.missing = quality.total
       /\ total > 0 =>
            /\ quality.missingPercent = Rat(tenths, 10)
            /\ quality.quality = (IF tenths < 100 THEN "good"
                                  ELSE IF tenths < 300 THEN "fair" ELSE "poor")
            /\ quality.warning # "null" <=> tenths > 300
            /\ tenths = 300 => (quality.quality = "poor" /\ quality.warning = "null")
       /\ total = 0 => (quality.quality = "poor" /\ quality.warning = "null")

\* 3 of 10 samples missing: 30.0 percent, poor, no warning
C16_Witness ==
  /\ quality # NotComputed
  /\ quality.total = 10
  /\ quality.missing = 3
  /\ quality.missingPercent = Num(30)
  /\ quality.quality = "poor"
  /\ quality.warning = "null"

\* count / total * 100 to one decimal place, in tenths of a percent
PercentTenths(count, total) == (2 * 1000 * count + total) \div (2 * total)

\* C17: with stats.exceedance present generateSummary appends exactly one of
\* four phrases by the one-decimal percentage p: rare for p < 10, occasional for
\* 10 <= p < 30, fairly common for 30 <= p < 60, very likely for p >= 60; the
\* sentence gives stats.count as the number of observations
C17_SummaryPhrase ==
  (ppc = "summary" /\ "exceedance" \in DOMAIN stats)
    => LET tenths == PercentTenths(stats.exceedance.count, stats.count)
       IN /\ summary.throws = "none"
          /\ summary.kind = "exceedance"
          /\ summary.prob = Rat(tenths, 10)
          /\ summary.prob = stats.exceedance.percentage
          /\ summary.phrase = (IF tenths < 100 THEN "rare"
                               ELSE IF tenths < 300 THEN "occasional"
                               ELSE IF tenths < 600 THEN "fairly common"
                               ELSE "very likely")
          /\ summary.observations = stats.count
          /\ summary.observations = Cardinality(ValidIndices(dataPoints))

\* 3 of 10 values above the threshold: 30.0 percent is fairly common
C17_Witness ==
  /\ ppc = "summary"
  /\ "exceedance" \in DOMAIN stats
  /\ stats.count = 10
  /\ stats.exceedance.count = 3
  /\ summary.prob = Num(30)
  /\ summary.phrase = "fairly common"
  /\ summary.observations = 10

\* C18: a 200 response to a query with threshold t has
\* stats.exceedance.threshold = t and a summary naming t, and a 200 response to
\* a query without threshold has no stats.exceedance, whatever queries and
\* cache operations came before
C18_ResponseDescribesThreshold ==
  \A r \in Handled :
    (reqs[r].pc = "done" /\ reqs[r].response.status = 200)
      => IF reqs[r].params.threshold.t = "num"
         THEN /\ "exceedance" \in DOMAIN reqs[r].response.body.stats
              /\ reqs[r].response.body.stats.exceedance.threshold = reqs[r].params.threshold
              /\ reqs[r].response.body.summary.kind = "exceedance"
              /\ reqs[r].response.body.summary.threshold = reqs[r].params.threshold
         ELSE "exceedance" \notin DOMAIN reqs[r].response.body.stats

\* request r, suspended at generateCSV, resumes and calls cache.set
SetsCache(r) == reqs[r].pc = "csv" /\ reqs'[r].didSet

\* C19: at most one compute per key is not guaranteed. Every request that
\* missed recomputes on its own: it is answered with cached = false after its
\* own cache.set, and its cache.set puts its own result under the key whatever
\* another request stored there in the meantime
C19_NoSingleFlight ==
  /\ [](\A r \in Handled :
          (reqs[r].pc = "done" /\ reqs[r].fetched /\ reqs[r].response.status = 200)
            => /\ reqs[r].computed
               /\ reqs[r].didSet
               /\ reqs[r].response.body.cached = FALSE)
  /\ [][\A r \in 1..MaxRequests :
          SetsCache(r) =>
            /\ cacheStats'.sets = cacheStats.sets + 1
            /\ generateKey(reqs[r].params) \in DOMAIN cache'
            /\ cache'[generateKey(reqs[r].params)].stats = reqs[r].stats
            /\ cache'[generateKey(reqs[r].params)].timeseries = reqs[r].timeseries
            /\ cache'[generateKey(reqs[r].params)].cached = FALSE]_vars

\* two requests with the same key both missed: the first has answered and its
\* result is in the cache, the second, which missed before that cache.set, has
\* computed different statistics and is suspended at generateCSV, about to set
C19_Witness ==
  /\ reqs[1].pc = "done"
  /\ reqs[1].fetched
  /\ reqs[1].didSet
  /\ reqs[1].response.status = 200
  /\ reqs[1].response.body.cached = FALSE
  /\ reqs[2].pc = "csv"
  /\ reqs[2].fetched
  /\ generateKey(reqs[2].params) = generateKey(reqs[1].params)
  /\ generateKey(reqs[1].params) \in DOMAIN cache
  /\ cache[generateKey(reqs[1].params)] = reqs[1].response.body
  /\ reqs[2].stats # reqs[1].response.body.stats
  /\ cacheStats = [hits |-> 0, misses |-> 2, sets |-> 1]

\* request r arrives and reaches the handler while its key is in the cache
ArrivesAtCachedKey(r) ==
  /\ reqs[r].pc = "idle"
  /\ reqs'[r].params # NotComputed
  /\ generateKey(reqs'[r].params) \in DOMAIN cache

\* C20: once a query with key K has completed, a later query with key K that
\* arrives while the entry is in the cache is answered from the cache, with
\* cached = true and the other fields of the stored result, without fetch,
\* statistics, CSV file or cache.set; a query that finds no entry (after a
\* flush) is recomputed and answered with cached = false
C20_ServedFromCache ==
  /\ [][\A r \in 1..MaxRequests :
          ArrivesAtCachedKey(r) =>
            /\ reqs'[r].pc = "done"
            /\ ~reqs'[r].fetched
            /\ reqs'[r].response.status = 200
            /\ \A f \in (DOMAIN cache[generateKey(reqs'[r].params)]) \ {"cached"} :
                 reqs'[r].response.body[f] = cache[generateKey(reqs'[r].params)][f]
            /\ UNCHANGED << cache, cacheStats.sets >>]_vars
  /\ [](\A r \in Handled :
          (reqs[r].pc = "done" /\ reqs[r].response.status = 200)
            => IF reqs[r].fetched
               THEN reqs[r].response.body.cached = FALSE
               ELSE /\ reqs[r].response.body.cached = TRUE
                    /\ ~reqs[r].computed
                    /\ ~reqs[r].csv
                    /\ ~reqs[r].didSet)

\* a step in which request r is answered with a status other than 200
AnsweredWithout200(r) ==
  /\ reqs[r].pc # "done"
  /\ reqs'[r].pc = "done"
  /\ reqs'[r].response.status # 200

\* a step in which request r reaches the handler and misses the cache
Misses(r) == reqs[r].pc = "idle" /\ reqs'[r].fetched

\* C21: a query request that does not end in a 200 response (404 for an empty
\* sample set, or an exception passed to next(error)) leaves the cache and the
\* sets counter as they were: cache.set is called only after statistics,
\* quality, trend, summary and CSV file are there, and such a request changes
\* the misses counter only
C21_FailureLeavesCache ==
  /\ [](/\ \A r \in 1..MaxRequests :
             /\ (reqs[r].pc = "done" /\ reqs[r].response.status # 200) => ~reqs[r].didSet
             /\ reqs[r].didSet => (reqs[r].fetched /\ reqs[r].computed /\ reqs[r].csv)
        /\ cacheStats.sets = Cardinality({r \in 1..MaxRequests : reqs[r].didSet}))
  /\ [][\A r \in 1..MaxRequests :
          /\ AnsweredWithout200(r) => UNCHANGED << cache, cacheStats >>
          /\ Misses(r) =>
               /\ UNCHANGED << cache, cacheStats.hits, cacheStats.sets >>
               /\ cacheStats'.misses = cacheStats.misses + 1]_vars

\* one request was answered 404 and another 500 after its CSV generation failed:
\* two misses, nothing set, nothing in the cache
C21_Witness ==
  /\ reqs[1].pc = "done"
  /\ reqs[1].response.status = 404
  /\ reqs[2].pc = "done"
  /\ reqs[2].response.status = 500
  /\ reqs[2].computed
  /\ reqs[2].csv
  /\ ~reqs[2].didSet
  /\ cache = << >>
  /\ cacheStats = [hits |-> 0, misses |-> 2, sets |-> 0]

\* C22: in every reachable state hits + misses is the number of get calls so
\* far (one for each request that reached the handler), hits counts the gets
\* that returned a stored value and misses those that returned null, sets
\* counts the set calls; no counter ever decreases, and flush and delete remove
\* entries without changing the counters
C22_CacheCounters ==
  /\ [](/\ cacheStats.hits + cacheStats.misses = Cardinality(Handled)
        /\ cacheStats.hits = Cardinality({r \in Handled : ~reqs[r].fetched})
        /\ cacheStats.misses = Cardinality({r \in Handled : reqs[r].fetched})
        /\ cacheStats.sets = Cardinality({r \in Handled : reqs[r].didSet})
        /\ \A r \in Handled :
             (~reqs[r].fetched) => (reqs[r].pc = "done" /\ reqs[r].response.status = 200))
  /\ [][/\ cacheStats'.hits >= cacheStats.hits
        /\ cacheStats'.misses >= cacheStats.misses
        /\ cacheStats'.sets >= cacheStats.sets
        /\ (DOMAIN cache' # DOMAIN cache /\ DOMAIN cache' \subseteq DOMAIN cache)
             => UNCHANGED cacheStats]_vars

\* a miss, a set and a hit, then a flush: the cache is empty and the counters
\* still read 1, 1 and 1
C22_Witness ==
  /\ reqs[1].pc = "done"
  /\ reqs[1].didSet
  /\ reqs[2].pc = "done"
  /\ reqs[2].response.status = 200
  /\ ~reqs[2].fetched
  /\ cache = << >>
  /\ cacheStats = [hits |-> 1, misses |-> 1, sets |-> 1]

\* floor((v - min) / binWidth) for integers v, min < max and 20 bins, clamped
\* into 0..19
BinOf(v, min, max) ==
  IF ((v - min) * 20) \div (max - min) > 19 THEN 19 ELSE ((v - min) * 20) \div (max - min)

\* C23: for values with max > min createHistogram returns 21 bin edges, not
\* decreasing, from min to max, and 20 counts; every value v is counted in bin
\* floor((v - min) / binWidth) clamped into 0..19, so that every index used is
\* in 0..19 and the maximum is counted in the last bin
C23_HistogramBins ==
  (/\ ppc # "start"
   /\ ValidIndices(dataPoints) # {}
   /\ stats.min # stats.max)
    => LET h == stats.distribution
       IN /\ Len(h.bins) = 21
          /\ Len(h.counts) = 20
          /\ h.bins[1] = stats.min
          /\ h.bins[21] = stats.max
          /\ \A i \in 1..20 : ~GT(h.bins[i], h.bins[i + 1])
          /\ \A b \in 1..20 :
               h.counts[b] = Cardinality({i \in ValidIndices(dataPoints) :
                                BinOf(dataPoints[i].value.n, stats.min.n, stats.max.n) = b - 1})
          /\ h.counts[20] >= 1
          /\ SumOfCounts(h.counts) = stats.count

\* the values 0, 1 and 2: one in bin 0, one in bin 10 and the maximum in bin 19
C23_Witness ==
  /\ ppc = "stats"
  /\ stats.count = 3
  /\ stats.min = Num(0)
  /\ stats.max = Num(2)
  /\ stats.distribution.counts[1] = 1
  /\ stats.distribution.counts[11] = 1
  /\ stats.distribution.counts[20] = 1

\* the rearrangements of a sequence
Rearrangements(S) ==
  {[i \in 1..Len(S) |-> S[p[i]]] :
     p \in {q \in [1..Len(S) -> 1..Len(S)] : \A i, j \in 1..Len(S) : q[i] = q[j] => i = j}}

\* what the claim compares of computeStats: all of the result but mean, std and
\* the bin edges
OrderStatistics(s) ==
  IF s.count = 0 THEN << 0 >>
  ELSE << s.count, s.min, s.max, s.median, s.percentiles,
          IF "exceedance" \in DOMAIN s THEN << s.exceedance.count, s.exceedance.probability >>
          ELSE << >>,
          s.distribution.counts >>

\* yearlyMeans has one entry for every year of the samples, in ascending order
OnePerYear(ym, points) ==
  /\ {ym[k].year : k \in 1..Len(ym)} = {points[i].year : i \in 1..Len(points)}
  /\ \A k \in 1..(Len(ym) - 1) : ym[k].year < ym[k + 1].year

\* C24: computeStats and analyzeTrend do not depend on the order of the samples:
\* every rearrangement of the samples has the same count, min, max, median,
\* percentiles, exceedance count and probability and histogram counts, and the
\* same yearlyMeans, which are sorted by year with one entry per distinct year
C24_OrderIndependent ==
  (ppc # "start" /\ trend # NotComputed)
    => \A P \in Rearrangements(dataPoints) :
         /\ OrderStatistics(computeStats(P, threshold)) = OrderStatistics(stats)
         /\ analyzeTrend(P).yearlyMeans = trend.yearlyMeans
         /\ OnePerYear(trend.yearlyMeans, dataPoints)

\* C25: computeStats (with createHistogram), analyzeTrend, assessDataQuality
\* and generateSummary leave their input as it is: every step keeps the length
\* of the sample sequence and, at every position, the same sample with the
\* same value, year and dayOfYear
C25_InputUnchanged ==
  [][/\ Len(dataPoints') = Len(dataPoints)
     /\ \A i \in 1..Len(dataPoints) :
          /\ dataPoints'[i].value = dataPoints[i].value
          /\ dataPoints'[i].year = dataPoints[i].year
          /\ dataPoints'[i].dayOfYear = dataPoints[i].dayOfYear]_vars

\* all four functions have run on the samples 2, 0, 1, which are still in that
\* order, while the statistics came from the sorted copy
C25_Witness ==
  /\ ppc = "summary"
  /\ quality # NotComputed
  /\ trend # NotComputed
  /\ Len(dataPoints) = 3
  /\ dataPoints[1].value = Num(2)
  /\ dataPoints[2].value = Num(0)
  /\ dataPoints[3].value = Num(1)
  /\ stats.min = Num(0)
  /\ stats.median = Num(1)

====
